---- MODULE Spec2Model ----
(***************************************************************************)
(* RC ThreeWays: one first-order RC lowpass simulated by three engines,    *)
(* MNA (state space), DKMethod (closed-form recurrence) and a wave digital *)
(* filter tree.  The repository holds two versions of the WDF tree: the    *)
(* class RCLowPass (prepare / setKnobs / process_sample) and the class     *)
(* RCLowpass (setup / process_sample).  Both are modelled.                 *)
(*                                                                         *)
(* Numbers.  The engines compute in IEEE float.  The model computes in     *)
(* exact rationals extended with the three IEEE special values, so that a  *)
(* division by zero yields what the float division yields (an infinity,    *)
(* or NaN for 0/0) and the special values propagate as they do in float.   *)
(* A value is a pair <<n, d>>: d > 0 and gcd(n, d) = 1 for a finite value, *)
(* <<1, 0>> for +Inf, <<-1, 0>> for -Inf and <<0, 0>> for NaN.  Rounding   *)
(* and the sign of zero are not modelled: a non-zero value divided by zero *)
(* gives the infinity that has the sign of the dividend.                   *)
(***************************************************************************)
EXTENDS Integers, Sequences, FiniteSets, TLC

(***************************************************************************)
(* Float arithmetic                                                        *)
(***************************************************************************)
Abs(i) == IF i < 0 THEN -i ELSE i

Sgn(i) == IF i < 0 THEN -1 ELSE IF i > 0 THEN 1 ELSE 0

RECURSIVE Gcd(_, _)
Gcd(i, j) == IF j = 0 THEN i ELSE Gcd(j, i % j)

NaN == <<0, 0>>

PInf == <<1, 0>>

NInf == <<-1, 0>>

\* The finite value n/d, d # 0, in lowest terms with a positive denominator.
Norm(n, d) ==
    LET g == Gcd(Abs(n), Abs(d))
    IN  <<(Sgn(d) * n) \div g, Abs(d) \div g>>

Q(i) == <<i, 1>>

IsNaN(u) == u = NaN

IsInf(u) == u[2] = 0 /\ u[1] # 0

IsFinite(u) == u[2] # 0

IsZero(u) == u[2] # 0 /\ u[1] = 0

\* float operator- (unary)
FNeg(u) == <<-u[1], u[2]>>

\* float operator+
FAdd(u, v) ==
    IF IsNaN(u) \/ IsNaN(v) THEN NaN
    ELSE IF IsInf(u) THEN (IF IsInf(v) /\ v # u THEN NaN ELSE u)
    ELSE IF IsInf(v) THEN v
    ELSE LET g == Gcd(u[2], v[2])   \* over the least common denominator
         IN  Norm(u[1] * (v[2] \div g) + v[1] * (u[2] \div g),
                  (u[2] \div g) * v[2])

\* float operator- (binary)
FSub(u, v) == FAdd(u, FNeg(v))

\* float operator*
FMul(u, v) ==
    IF IsNaN(u) \/ IsNaN(v) THEN NaN
    ELSE IF IsInf(u) \/ IsInf(v)
         THEN (IF IsZero(u) \/ IsZero(v) THEN NaN
               ELSE <<Sgn(u[1]) * Sgn(v[1]), 0>>)
    ELSE LET g1 == Gcd(Abs(u[1]), v[2])   \* cancel before multiplying
             g2 == Gcd(Abs(v[1]), u[2])
         IN  Norm((u[1] \div g1) * (v[1] \div g2),
                  (u[2] \div g2) * (v[2] \div g1))

\* float operator/ : x/0 is an infinity, 0/0 and Inf/Inf are NaN.
FDiv(u, v) ==
    IF IsNaN(u) \/ IsNaN(v) THEN NaN
    ELSE IF IsInf(v) THEN (IF IsInf(u) THEN NaN ELSE Q(0))
    ELSE IF IsZero(v) THEN (IF IsZero(u) THEN NaN ELSE <<Sgn(u[1]), 0>>)
    ELSE IF IsInf(u) THEN <<Sgn(u[1]) * Sgn(v[1]), 0>>
    ELSE LET g1 == Gcd(Abs(u[1]), Abs(v[1]))
             g2 == Gcd(v[2], u[2])
         IN  Norm((u[1] \div g1) * (v[2] \div g2),
                  (u[2] \div g2) * (v[1] \div g1))

\* float operator!= : NaN differs from everything, itself included.
FNe(u, v) == IsNaN(u) \/ IsNaN(v) \/ u # v

\* float operator< on values that are not NaN
FLt(u, v) ==
    IF IsInf(u) \/ IsInf(v) THEN (u # v /\ (u = NInf \/ v = PInf))
    ELSE u[1] * v[2] < v[1] * u[2]

FAbs(u) == <<Abs(u[1]), u[2]>>

(***************************************************************************)
(* Model values.  The source defaults (Res = Cap = 10000, samp_rate =      *)
(* 44100) give intermediate values such as R + Z = 8820000000001/882000000 *)
(* that exact 32-bit rational arithmetic cannot hold, so the model runs    *)
(* the same code on a scaled parameter range: knob and sample-rate values  *)
(* are small integers, 0 included because the host range [0, 20000]        *)
(* delivers it.                                                            *)
(***************************************************************************)
\* values the RESISTOR and CAPACITOR controls deliver (AudioParameterInt)
Knobs == {Q(0), Q(1), Q(2)}

\* sample rates the host hands to prepare
Rates == {Q(0), <<1, 2>>, Q(1)}

\* input samples
Samples == {Q(0), Q(1)}

\* the member initialisers `Res = 10000.f`, `Cap = 10000.f`, `samp_rate = 44100`
\* (and R, C, fs of DKMethod; res, cap, initial_sr of RCLowPass), scaled
DefaultRes == Q(1)

DefaultCap == Q(1)

DefaultRate == Q(1)

\* number of process_sample calls a behaviour makes
MaxSamples == 3

\* number of prepare / parameter-setter calls a behaviour makes
MaxCalls == 2

(***************************************************************************)
(* Eigen 3x3 matrices and 3-vectors: a vector is <<v1, v2, v3>>, a matrix  *)
(* the tuple of its rows.                                                  *)
(***************************************************************************)
ZeroVec == <<Q(0), Q(0), Q(0)>>

\* builds the vector (or the rows of a matrix) from its three coefficients
Vec3(f(_)) == <<f(1), f(2), f(3)>>

\* Matrix + Matrix
MatAdd(M, N) == Vec3(LAMBDA i : Vec3(LAMBDA j : FAdd(M[i][j], N[i][j])))

\* Matrix - Matrix
MatSub(M, N) == Vec3(LAMBDA i : Vec3(LAMBDA j : FSub(M[i][j], N[i][j])))

\* scalar * Matrix
MatScale(s, M) == Vec3(LAMBDA i : Vec3(LAMBDA j : FMul(s, M[i][j])))

\* Matrix / scalar
MatDivScalar(M, s) == Vec3(LAMBDA i : Vec3(LAMBDA j : FDiv(M[i][j], s)))

\* vector + vector
VecAdd(u, v) == Vec3(LAMBDA i : FAdd(u[i], v[i]))

\* Matrix * vector
MatVec(M, v) ==
    Vec3(LAMBDA i : FAdd(FAdd(FMul(M[i][1], v[1]), FMul(M[i][2], v[2])),
                         FMul(M[i][3], v[3])))

\* cofactor (i, j) of M, signed: the 2x2 determinant over the rows and
\* columns that cyclically follow i and j
Cofactor(M, i, j) ==
    LET i1 == (i % 3) + 1
        i2 == ((i + 1) % 3) + 1
        j1 == (j % 3) + 1
        j2 == ((j + 1) % 3) + 1
    IN  FSub(FMul(M[i1][j1], M[i2][j2]), FMul(M[i1][j2], M[i2][j1]))

\* determinant by the first column, as Eigen's fixed-size inverse takes it
Det3(M) ==
    FAdd(FAdd(FMul(M[1][1], Cofactor(M, 1, 1)), FMul(M[2][1], Cofactor(M, 2, 1))),
         FMul(M[3][1], Cofactor(M, 3, 1)))

\* Matrix::inverse() for a fixed 3x3: the transposed cofactors times 1/det.
\* A singular matrix gives 1/0 = Inf and Inf or NaN entries, no exception.
Inverse3(M) ==
    LET invdet == FDiv(Q(1), Det3(M))
    IN  Vec3(LAMBDA i : Vec3(LAMBDA j : FMul(Cofactor(M, j, i), invdet)))

\* vector / Matrix.  Eigen declares no quotient by a matrix; the expression
\* is read as the right quotient, the vector times the inverse of the divisor
\* (every matrix of this model is symmetric, so the side does not matter).
VecDivMat(v, M) == MatVec(Inverse3(M), v)

(***************************************************************************)
(* DKMethod (DK Method.h / DK Method.cpp)                                  *)
(* Every engine record carries `upd`, the number of update_coefficients    *)
(* calls the handler that ran last has made (instrumentation, not a member *)
(* of the class).                                                          *)
(***************************************************************************)
\* One statement of the class, <<member written, value or argument>>:
\*   C = cap;  R = res;  fs = newFs;  Z = 1/(2* fs * C);
DKMethod_stmt(d, st) ==
    CASE st[1] = "C"  -> [d EXCEPT !.C = st[2]]
      [] st[1] = "R"  -> [d EXCEPT !.R = st[2]]
      [] st[1] = "fs" -> [d EXCEPT !.fs = st[2]]
      [] st[1] = "Z"  -> [d EXCEPT !.Z = FDiv(Q(1), FMul(FMul(Q(2), d.fs), d.C)),
                                   !.upd = d.upd + 1]

\* the statements in the order a handler executes them
RECURSIVE DKMethod_run(_, _)
DKMethod_run(d, prog) ==
    IF prog = <<>> THEN d
    ELSE DKMethod_run(DKMethod_stmt(d, Head(prog)), Tail(prog))

\* the body of update_coefficients
DKMethod_update_coefficients_body == << <<"Z", NaN>> >>

DKMethod_update_coefficients(d) == DKMethod_run(d, DKMethod_update_coefficients_body)

\* the member initialisers of class DKMethod
DKMethod_new ==
    [R |-> DefaultRes, C |-> DefaultCap, X |-> Q(0), fs |-> DefaultRate,
     Z |-> FDiv(Q(1), FMul(FMul(Q(2), DefaultRate), DefaultCap)), upd |-> 0]

\* float Vout = (n * (R/(R + Z))) + (X * (R/(R + Z)));
DKMethod_Vout(d, n) ==
    FAdd(FMul(n, FDiv(d.R, FAdd(d.R, d.Z))), FMul(d.X, FDiv(d.R, FAdd(d.R, d.Z))))

\* process_sample: the engine after the call; the value returned is DKMethod_Vout
DKMethod_process_sample(d, n) ==
    [d EXCEPT !.X = FSub(FMul(FDiv(Q(2), d.Z), DKMethod_Vout(d, n)), d.X),
              !.upd = 0]

\* the statements prepare(newFs) executes from state d
DKMethod_prepare_prog(d, newFs) ==
    IF FNe(newFs, d.fs)
    THEN << <<"fs", newFs>> >> \o DKMethod_update_coefficients_body
    ELSE <<>>

DKMethod_prepare(d, newFs) ==
    DKMethod_run([d EXCEPT !.upd = 0], DKMethod_prepare_prog(d, newFs))

\* the statements setKnobs(res, cap) executes from state d
DKMethod_setKnobs_prog(d, res, cap) ==
    (IF FNe(cap, d.C)
     THEN << <<"C", cap>> >> \o DKMethod_update_coefficients_body ELSE <<>>)
    \o (IF FNe(res, d.R)
        THEN << <<"R", res>> >> \o DKMethod_update_coefficients_body ELSE <<>>)

\* setKnobs that also clears the delayed state
DKMethod_setKnobs_reset(d, res, cap) ==
    [DKMethod_run([d EXCEPT !.upd = 0], DKMethod_setKnobs_prog(d, res, cap))
        EXCEPT !.X = Q(0)]

DKMethod_setKnobs(d, res, cap) ==
    DKMethod_run([d EXCEPT !.upd = 0], DKMethod_setKnobs_prog(d, res, cap))

(***************************************************************************)
(* DKMethod of the project "RC ThreeWays" (its DK Method.cpp): the same    *)
(* class with a one-argument setKnobs and an update_coefficients that      *)
(* declares a local Z.                                                     *)
(***************************************************************************)
\* the member initialisers of the class (DK Method.h)
ThreeWays_DKMethod_new == DKMethod_new

\* update_coefficients: `float Z = 1/(2* fs * C);` initialises a local
\* variable that hides the member; the member Z is not written.
ThreeWays_DKMethod_update_coefficients(d) == [d EXCEPT !.upd = d.upd + 1]

\* process_sample: the same statements as above
ThreeWays_DKMethod_process_sample(d, n) == DKMethod_process_sample(d, n)

\* prepare(newFs)
ThreeWays_DKMethod_prepare(d, newFs) ==
    LET d0 == [d EXCEPT !.upd = 0]
    IN  IF FNe(newFs, d0.fs)
        THEN ThreeWays_DKMethod_update_coefficients([d0 EXCEPT !.fs = newFs])
        ELSE d0

\* setKnobs(cutoff): the argument is stored in C
ThreeWays_DKMethod_setKnobs(d, cutoff) ==
    LET d0 == [d EXCEPT !.upd = 0]
    IN  IF FNe(cutoff, d0.C)
        THEN ThreeWays_DKMethod_update_coefficients([d0 EXCEPT !.C = cutoff])
        ELSE d0

(***************************************************************************)
(* MNA (MNA.h / MNA.cpp).  Unknowns x = (V1 source node, V2 capacitor      *)
(* node, I source branch current); row 3 of G is the constraint V1 = Vs.   *)
(***************************************************************************)
\* G without the voltage-source row and column: the conductance stamp of
\* the resistor alone
MNA_G_floating(Res) ==
    << <<FDiv(Q(1), Res), FDiv(Q(-1), Res), Q(0)>>,
       <<FDiv(Q(-1), Res), FDiv(Q(1), Res), Q(0)>>,
       <<Q(0), Q(0), Q(0)>> >>

\* G = {{1/Res, -1/Res, 1}, {-1/Res, 1/Res, 0}, {1, 0, 0}}
MNA_G(Res) ==
    << <<FDiv(Q(1), Res), FDiv(Q(-1), Res), Q(1)>>,
       <<FDiv(Q(-1), Res), FDiv(Q(1), Res), Q(0)>>,
       <<Q(1), Q(0), Q(0)>> >>

\* C = {{0, 0, 0}, {0, Cap, 0}, {0, 0, 0}}
MNA_C(Cap) ==
    << <<Q(0), Q(0), Q(0)>>, <<Q(0), Cap, Q(0)>>, <<Q(0), Q(0), Q(0)>> >>

\* One statement of the class, <<member written, value or argument>>:
\*   Cap = capacitor;  Res = resistor;  samp_rate = sr;  and the six
\*   assignments of update_coefficients.
MNA_stmt(m, st) ==
    CASE st[1] = "Cap"       -> [m EXCEPT !.Cap = st[2]]
      [] st[1] = "Res"       -> [m EXCEPT !.Res = st[2]]
      [] st[1] = "samp_rate" -> [m EXCEPT !.samp_rate = st[2]]
      [] st[1] = "G"         -> [m EXCEPT !.G = MNA_G(m.Res)]
      [] st[1] = "C"         -> [m EXCEPT !.C = MNA_C(m.Cap)]
      [] st[1] = "H"         -> [m EXCEPT !.H = MatDivScalar(MatScale(Q(2), m.C), m.T)]
      [] st[1] = "A"         -> [m EXCEPT !.A = MatAdd(m.G, m.H)]
      [] st[1] = "A_inv"     -> [m EXCEPT !.A_inv = Inverse3(m.A)]
      [] st[1] = "T"         -> [m EXCEPT !.T = FDiv(Q(1), m.samp_rate),
                                          !.upd = m.upd + 1]

\* the statements in the order a handler executes them
RECURSIVE MNA_run(_, _)
MNA_run(m, prog) ==
    IF prog = <<>> THEN m
    ELSE MNA_run(MNA_stmt(m, Head(prog)), Tail(prog))

\* the body of update_coefficients: G, C, H, A, A_inv in that order, and T
\* last, so H is built from the T the object held when the call began.
MNA_update_coefficients_body ==
    << <<"G", NaN>>, <<"C", NaN>>, <<"H", NaN>>, <<"A", NaN>>,
       <<"A_inv", NaN>>, <<"T", NaN>> >>

MNA_update_coefficients(m) == MNA_run(m, MNA_update_coefficients_body)

\* the member initialisers of class MNA, in declaration order
MNA_new ==
    LET T == FDiv(Q(1), DefaultRate)
        G == MNA_G(DefaultRes)
        C == MNA_C(DefaultCap)
        H == MatDivScalar(MatScale(Q(2), C), T)
        A == MatAdd(G, H)
    IN  [Res |-> DefaultRes, Cap |-> DefaultCap, samp_rate |-> DefaultRate,
         T |-> T, G |-> G, b |-> ZeroVec, b_delay |-> ZeroVec, x |-> ZeroVec,
         C |-> C, H |-> H, A |-> A, A_inv |-> Inverse3(A), upd |-> 0]

\* process_sample.  b(1, 2) and x(1, 2) name the same coefficient of a
\* 3-vector; k is the position that index pair resolves to.
\*   b(1, 2) = n;  x = (((H - G)*x) + b + b_delay)/A_inv;  b_delay = b;
MNA_process_sample(m, n, k) ==
    LET b   == [m.b EXCEPT ![k] = n]
        rhs == VecAdd(VecAdd(MatVec(MatSub(m.H, m.G), m.x), b), m.b_delay)
    IN  [m EXCEPT !.b = b, !.x = VecDivMat(rhs, m.A_inv), !.b_delay = b,
                  !.upd = 0]

\* return x(1, 2);
MNA_output(m, k) == m.x[k]

\* the statements prepare(sr) executes from state m
MNA_prepare_prog(m, sr) ==
    IF FNe(sr, m.samp_rate)
    THEN << <<"samp_rate", sr>> >> \o MNA_update_coefficients_body
    ELSE <<>>

MNA_prepare(m, sr) == MNA_run([m EXCEPT !.upd = 0], MNA_prepare_prog(m, sr))

\* set_knobs without the `!=` guards: both members stored, coefficients
\* recomputed on every call
MNA_set_knobs_prog_unguarded(m, capacitor, resistor) ==
    << <<"Cap", capacitor>> >> \o MNA_update_coefficients_body
    \o << <<"Res", resistor>> >> \o MNA_update_coefficients_body

\* the statements set_knobs(capacitor, resistor) executes from state m
\*   void MNA::set_knobs(float capacitor, float resistor)
MNA_set_knobs_prog(m, capacitor, resistor) ==
    (IF FNe(capacitor, m.Cap)
     THEN << <<"Cap", capacitor>> >> \o MNA_update_coefficients_body ELSE <<>>)
    \o (IF FNe(resistor, m.Res)
        THEN << <<"Res", resistor>> >> \o MNA_update_coefficients_body ELSE <<>>)

MNA_set_knobs(m, capacitor, resistor) ==
    MNA_run([m EXCEPT !.upd = 0], MNA_set_knobs_prog(m, capacitor, resistor))

(***************************************************************************)
(* WDF.h, class RCLowPass: Resistor res, Capacitor cap, VoltageSource Vin, *)
(* SeriesAdaptor adaptor {res, cap}.  Every WDF node holds R0, b, a.       *)
(* The record of a tree carries `calls`, the calc_impedences / reflected / *)
(* incident calls the handler that ran last has made, in order, each as    *)
(* <<caller, node, method>> (instrumentation, like `upd`), and between     *)
(* them the accesses to the capacitor's delayed wave, each as              *)
(* <<node, member, "read" or "write">>.                                    *)
(***************************************************************************)
\* the tree w after `caller` has entered `method` of `node`
Called(w, caller, node, method) ==
    [w EXCEPT !.calls = Append(@, <<caller, node, method>>)]

\* the tree w after `node` has read or written its `member`
Accessed(w, node, member, access) ==
    [w EXCEPT !.calls = Append(@, <<node, member, access>>)]

\* the constructor argument of `VoltageSource Vin {5}`
InitialVin == 5

RCLowPass_new ==
    [res |-> [R |-> DefaultRes, R0 |-> Q(0), b |-> Q(0), a |-> Q(0)],
     cap |-> [C |-> DefaultCap, R0 |-> Q(0), b |-> Q(0), a |-> Q(0),
              delayed_a |-> Q(0), fs |-> DefaultRate],
     Vin |-> [Vin |-> Q(InitialVin), R0 |-> Q(0), b |-> Q(0), a |-> Q(0)],
     adaptor |-> [R0 |-> Q(0), b |-> Q(0), a |-> Q(0)],
     initial_sr |-> DefaultRate,
     upd |-> 0, calls |-> <<>>]

\* Resistor::calc_impedences: R0 = R
LP_res_calc_impedences(w) ==
    [Called(w, "RCLowPass", "res", "calc_impedences")
        EXCEPT !.res.R0 = w.res.R, !.upd = w.upd + 1]

\* Capacitor::calc_impedences: R0 = 1/(2.0f * fs * C)
LP_cap_calc_impedences(w) ==
    [Called(w, "RCLowPass", "cap", "calc_impedences")
        EXCEPT !.cap.R0 = FDiv(Q(1), FMul(FMul(Q(2), w.cap.fs), w.cap.C)),
               !.upd = w.upd + 1]

\* VoltageSource::calc_impedences: empty body
LP_Vin_calc_impedences(w) ==
    [Called(w, "RCLowPass", "Vin", "calc_impedences") EXCEPT !.upd = w.upd + 1]

\* SeriesAdaptor::calc_impedences: R0 = child1.get_R0() + child2.get_R0()
LP_adaptor_calc_impedences(w) ==
    [Called(w, "RCLowPass", "adaptor", "calc_impedences")
        EXCEPT !.adaptor.R0 = FAdd(w.res.R0, w.cap.R0), !.upd = w.upd + 1]

\* Capacitor::reset_state
LP_cap_reset_state(w) ==
    [Accessed(w, "cap", "delayed_a", "write") EXCEPT !.cap.delayed_a = Q(0)]

\* Capacitor::update_sample_rate
LP_cap_update_sample_rate(w, sr) ==
    IF FNe(sr, w.cap.fs) THEN [w EXCEPT !.cap.fs = sr] ELSE w

\* RCLowPass::prepare
RCLowPass_prepare(w, sr) ==
    LET w0 == [w EXCEPT !.upd = 0, !.calls = <<>>]
        w1 == LP_cap_update_sample_rate(LP_cap_reset_state(w0), sr)
    IN  LP_adaptor_calc_impedences(
            LP_Vin_calc_impedences(
                LP_cap_calc_impedences(
                    LP_res_calc_impedences(w1))))

\* Capacitor::reflected: b = delayed_a; delayed_a = a;
LP_cap_reflected(w) ==
    LET w0 == Called(w, "adaptor", "cap", "reflected")
        w1 == [Accessed(w0, "cap", "delayed_a", "read")
                  EXCEPT !.cap.b = w0.cap.delayed_a]
    IN  [Accessed(w1, "cap", "delayed_a", "write")
            EXCEPT !.cap.delayed_a = w1.cap.a]

\* SeriesAdaptor::reflected: Resistor::reflected (b = 0), Capacitor::reflected,
\* then b = -(b1 + b2)
LP_adaptor_reflected(w) ==
    LET w0 == Called(w, "RCLowPass", "adaptor", "reflected")
        w1 == [Called(w0, "adaptor", "res", "reflected") EXCEPT !.res.b = Q(0)]
        w2 == LP_cap_reflected(w1)
    IN  [w2 EXCEPT !.adaptor.b = FNeg(FAdd(w2.res.b, w2.cap.b))]

\* SeriesAdaptor::incident(x)
LP_adaptor_incident(w, x) ==
    LET b1 == w.res.b
        b2 == w.cap.b
        wv == FAdd(FAdd(x, b1), b2)
        port1ReflectedWeights == FDiv(b1, FAdd(b1, b2))
        port1_a == FSub(b1, FMul(port1ReflectedWeights, wv))
        w1 == Called(w, "RCLowPass", "adaptor", "incident")
        w2 == [Called(w1, "adaptor", "res", "incident") EXCEPT !.res.a = port1_a]
    IN  [Called(w2, "adaptor", "cap", "incident")
            EXCEPT !.cap.a = FNeg(FAdd(x, port1_a))]

\* WDF::toVoltage on the capacitor
LP_cap_toVoltage(w) == FDiv(FAdd(w.cap.a, w.cap.b), Q(2))

\* RCLowPass::process_sample; the value returned is LP_cap_toVoltage of the result
RCLowPass_process_sample(w, input_voltage) ==
    LET w0 == [w EXCEPT !.upd = 0, !.calls = <<>>, !.Vin.Vin = input_voltage]
        w1 == LP_adaptor_reflected(w0)
        w2 == [Called(w1, "RCLowPass", "Vin", "incident")
                  EXCEPT !.Vin.a = w1.adaptor.b]
        w3 == [Called(w2, "RCLowPass", "Vin", "reflected")
                  EXCEPT !.Vin.b = FSub(FMul(Q(2), w2.Vin.Vin), w2.Vin.a)]
    IN  LP_adaptor_incident(w3, w3.Vin.b)

\* RCLowPass::setKnobs
RCLowPass_setKnobs(w, newR, newC) ==
    LET w0 == [w EXCEPT !.upd = 0, !.calls = <<>>]
        w1 == IF FNe(newR, w0.res.R)
              THEN LP_adaptor_calc_impedences(
                       LP_res_calc_impedences([w0 EXCEPT !.res.R = newR]))
              ELSE w0
    IN  IF FNe(newC, w1.cap.C)
        THEN LP_adaptor_calc_impedences(
                 LP_cap_calc_impedences([w1 EXCEPT !.cap.C = newC]))
        ELSE w1

(***************************************************************************)
(* WDF.h, class RCLowpass: Resistor R1, Capacitor C1, SeriesAdaptor S1     *)
(* {&R1, &C1}, IdealVoltageSource Vin {&S1, 0.0f}.                         *)
(***************************************************************************)
\* Capacitor::fs and Capacitor::z have no initialiser and the constructor
\* sets neither: until setup() writes them they hold an indeterminate value.
Indeterminate == {Q(0), Q(1)}

\* `Resistor R1 {1.0e3f}` and `Capacitor C1 {1.0e-6f}`, scaled
LowpassR1 == Q(1)

LowpassC1 == Q(1)

RCLowpass_new(fs0, z0) ==
    [R1 |-> [R |-> LowpassR1, a |-> Q(0), b |-> Q(0), R0 |-> Q(0)],
     C1 |-> [fs |-> fs0, C |-> LowpassC1, z |-> z0,
             a |-> Q(0), b |-> Q(0), R0 |-> Q(0)],
     S1 |-> [port1Reflect |-> Q(0), a |-> Q(0), b |-> Q(0), R0 |-> Q(0)],
     Vin |-> [Rs |-> Q(0), vs |-> Q(0), a |-> Q(0), b |-> Q(0), R0 |-> Q(0)],
     upd |-> 0, calls |-> <<>>]

\* Resistor::set_resistance
Resistor_set_resistance(w, new_resistance) ==
    [w EXCEPT !.R1.R = new_resistance, !.upd = 0, !.calls = <<>>]

\* Capacitor::set_capacitance
Capacitor_set_capacitance(w, new_capacitance) ==
    [w EXCEPT !.C1.C = new_capacitance, !.upd = 0, !.calls = <<>>]

\* SeriesAdaptor::calc_impedence: R0 = R1 + R2; port1Reflect = R1 / R0
S1_calc_impedence(w) ==
    LET R0 == FAdd(w.R1.R0, w.C1.R0)
    IN  [Called(w, "RCLowpass", "S1", "calc_impedence")
            EXCEPT !.S1.R0 = R0, !.S1.port1Reflect = FDiv(w.R1.R0, R0),
                   !.upd = w.upd + 1]

\* RCLowpass::setup
RCLowpass_setup(w, sample_rate) ==
    LET w1 == [Accessed([w EXCEPT !.calls = <<>>], "C1", "z", "write")
                  EXCEPT !.upd = 0, !.C1.fs = sample_rate, !.C1.z = Q(0)]
        w2 == [Called(w1, "RCLowpass", "R1", "calc_impedence")
                  EXCEPT !.R1.R0 = w1.R1.R, !.upd = w1.upd + 1]
        w3 == [Called(w2, "RCLowpass", "C1", "calc_impedence")
                  EXCEPT !.C1.R0 = FDiv(Q(1), FMul(FMul(Q(2), w2.C1.fs), w2.C1.C)),
                         !.upd = w2.upd + 1]
        w4 == S1_calc_impedence(w3)
    IN  [Called(w4, "RCLowpass", "Vin", "calc_impedence") EXCEPT !.upd = w4.upd + 1]

\* Capacitor::reflected with its two statements exchanged: z = a; b = z;
C1_reflected_write_first(w) ==
    LET w0 == Called(w, "S1", "C1", "reflected")
        w1 == [Accessed(w0, "C1", "z", "write") EXCEPT !.C1.z = w0.C1.a]
    IN  [Accessed(w1, "C1", "z", "read") EXCEPT !.C1.b = w1.C1.z]

\* Capacitor::reflected: b = z; z = a;
C1_reflected(w) ==
    LET w0 == Called(w, "S1", "C1", "reflected")
        w1 == [Accessed(w0, "C1", "z", "read") EXCEPT !.C1.b = w0.C1.z]
    IN  [Accessed(w1, "C1", "z", "write") EXCEPT !.C1.z = w1.C1.a]

\* SeriesAdaptor::reflected: b = -(port1->reflected() + port2->reflected())
S1_reflected(w) ==
    LET w0 == Called(w, "RCLowpass", "S1", "reflected")
        w1 == [Called(w0, "S1", "R1", "reflected") EXCEPT !.R1.b = Q(0)]
        w2 == C1_reflected(w1)
    IN  [w2 EXCEPT !.S1.b = FNeg(FAdd(w2.R1.b, w2.C1.b))]

\* SeriesAdaptor::incident(x)
S1_incident(w, x) ==
    LET b1    == w.R1.b
        b2    == w.C1.b
        alpha == w.S1.port1Reflect
        wsum  == FSub(FSub(x, b1), b2)
        a1    == FAdd(b1, FMul(alpha, wsum))
        a2    == FAdd(b2, FMul(FSub(Q(1), alpha), wsum))
        w1 == [Called(w, "Vin", "S1", "incident") EXCEPT !.S1.a = x]
        w2 == [Called(w1, "S1", "R1", "incident") EXCEPT !.R1.a = a1]
    IN  [Called(w2, "S1", "C1", "incident") EXCEPT !.C1.a = a2]

\* IdealVoltageSource::incident(x): a = x; b = 2.0f * vs - a; child->incident(b)
IdealVoltageSource_incident(w, x) ==
    LET w1 == [Called(w, "RCLowpass", "Vin", "incident") EXCEPT !.Vin.a = x]
        w2 == [w1 EXCEPT !.Vin.b = FSub(FMul(Q(2), w1.Vin.vs), w1.Vin.a)]
    IN  S1_incident(w2, w2.Vin.b)

\* WDF::toVoltage on C1
C1_toVoltage(w) == FDiv(FAdd(w.C1.a, w.C1.b), Q(2))

\* RCLowpass::process_sample; the value returned is C1_toVoltage of the result
RCLowpass_process_sample(w, input_voltage) ==
    LET w0 == [w EXCEPT !.upd = 0, !.calls = <<>>, !.Vin.vs = input_voltage]
        w1 == S1_reflected(w0)
    IN  IdealVoltageSource_incident(w1, w1.S1.b)

(***************************************************************************)
(* State.  The engines share nothing; the host feeds each of them the same *)
(* calls, so that their outputs can be compared sample by sample.  Every   *)
(* call sequence of a single engine occurs.                                *)
(***************************************************************************)
VARIABLES
    mna,      \* the MNA object
    dk,       \* the DKMethod object
    dkTW,     \* the DKMethod object of the project RC ThreeWays
    lp,       \* the RCLowPass object (WDF tree with prepare / setKnobs)
    rc,       \* the RCLowpass object (WDF tree with setup)
    coeff12,  \* the position of a 3-vector that the index pair (1, 2) names
    out,      \* what the last process_sample of each engine returned
    call,     \* the last call: its name and its arguments
    ctl,      \* the control thread: the call it is inside, statement by statement
    race,     \* the coefficients process_sample read while a call was under way
    nsamp,    \* process_sample calls so far
    ncall,    \* prepare and setter calls so far
    hist      \* facts about the calls so far that the properties refer to

vars == <<mna, dk, dkTW, lp, rc, coeff12, out, call, ctl, race, nsamp, ncall, hist>>

\* Eigen indexes from zero, so column 2 of (1, 2) is the third coefficient;
\* the header's comment and a one-based reading make it the second.  Row 1
\* does not exist in a 1x3 matrix, so the access is out of range and which
\* coefficient it reaches is not defined: the model takes either.
Coeff12 == {2, 3}

Init ==
    /\ mna = MNA_new
    /\ dk = DKMethod_new
    /\ dkTW = ThreeWays_DKMethod_new
    /\ lp = RCLowPass_new
    /\ \E fs0 \in Indeterminate, z0 \in Indeterminate : rc = RCLowpass_new(fs0, z0)
    /\ coeff12 \in Coeff12
    /\ out = [mna |-> Q(0), dk |-> Q(0), lp |-> Q(0), rc |-> Q(0)]
    /\ call = [op |-> "new", args |-> <<>>, pos |-> <<>>]
    /\ ctl = [eng |-> "none", prog |-> <<>>]
    /\ race = [allowed |-> {}, used |-> {}]
    /\ nsamp = 0
    /\ ncall = 0
    /\ hist = [zeroIn   |-> TRUE,   \* every input sample so far was 0
               impulse  |-> TRUE,   \* the input so far is 1 followed by 0s
               step     |-> TRUE,   \* every input sample so far was 1
               valid    |-> TRUE,   \* every R, C, sample rate so far was > 0
               steady   |-> TRUE,   \* no prepare / setter since the first sample
               prepared |-> FALSE,  \* prepare has been called
               rcSetup  |-> FALSE]  \* rc: setup ran after the last set_*

Positive(u) == ~IsNaN(u) /\ FLt(Q(0), u)

\* the members process_sample of engine e reads besides its recurrence state:
\* G, H, A_inv in MNA::process_sample, R and Z in DKMethod::process_sample
CoefficientsRead(e) ==
    IF e = "mna" THEN <<mna.G, mna.H, mna.A_inv>> ELSE <<dk.R, dk.Z>>

\* prepare(sr) on every engine (setup(sr) on RCLowpass)
Prepare(sr) ==
    /\ ncall < MaxCalls
    /\ ctl.eng = "none"
    /\ ncall' = ncall + 1
    /\ mna' = MNA_prepare(mna, sr)
    /\ dk' = DKMethod_prepare(dk, sr)
    /\ dkTW' = ThreeWays_DKMethod_prepare(dkTW, sr)
    /\ lp' = RCLowPass_prepare(lp, sr)
    /\ rc' = RCLowpass_setup(rc, sr)
    /\ call' = [op |-> "prepare", args |-> <<sr>>, pos |-> <<sr>>]
    /\ hist' = [hist EXCEPT !.valid = @ /\ Positive(sr),
                            !.steady = @ /\ nsamp = 0,
                            !.prepared = TRUE,
                            !.rcSetup = TRUE]
    /\ UNCHANGED <<coeff12, out, nsamp, ctl, race>>

\* the parameter setter of every engine, resistance r and capacitance c;
\* `pos` keeps the arguments in the order each signature takes them
SetParameters(r, c) ==
    /\ ncall < MaxCalls
    /\ ctl.eng = "none"
    /\ ncall' = ncall + 1
    /\ mna' = MNA_set_knobs(mna, c, r)
    /\ dk' = DKMethod_setKnobs(dk, r, c)
    /\ dkTW' = ThreeWays_DKMethod_setKnobs(dkTW, c)
    /\ lp' = RCLowPass_setKnobs(lp, r, c)
    /\ rc' = Capacitor_set_capacitance(Resistor_set_resistance(rc, r), c)
    /\ call' = [op |-> "setParameters", args |-> <<r, c>>,
                pos |-> [mna |-> <<c, r>>, dk |-> <<r, c>>, lp |-> <<r, c>>]]
    /\ hist' = [hist EXCEPT !.valid = @ /\ Positive(r) /\ Positive(c),
                            !.steady = @ /\ nsamp = 0,
                            !.rcSetup = FALSE]
    /\ UNCHANGED <<coeff12, out, nsamp, ctl, race>>

\* process_sample(n) on every engine.  The host prepares an engine before it
\* streams ("Must be called before processing", RCLowpass::setup).
ProcessSample(n) ==
    /\ nsamp < MaxSamples
    /\ hist.prepared
    /\ mna' = MNA_process_sample(mna, n, coeff12)
    /\ dk' = DKMethod_process_sample(dk, n)
    /\ dkTW' = ThreeWays_DKMethod_process_sample(dkTW, n)
    /\ lp' = RCLowPass_process_sample(lp, n)
    /\ rc' = RCLowpass_process_sample(rc, n)
    /\ out' = [mna |-> MNA_output(mna', coeff12),
               dk  |-> DKMethod_Vout(dk, n),
               lp  |-> LP_cap_toVoltage(lp'),
               rc  |-> C1_toVoltage(rc')]
    /\ call' = [op |-> "process_sample", args |-> <<n>>, pos |-> <<n>>]
    /\ nsamp' = nsamp + 1
    /\ hist' = [hist EXCEPT !.zeroIn = @ /\ n = Q(0),
                            !.impulse = IF nsamp = 0 THEN n = Q(1)
                                        ELSE @ /\ n = Q(0),
                            !.step = @ /\ n = Q(1)]
    /\ race' = [race EXCEPT !.used = IF ctl.eng = "none" THEN {}
                                     ELSE {CoefficientsRead(ctl.eng)}]
    /\ UNCHANGED <<coeff12, ncall, ctl>>

(***************************************************************************)
(* The control thread against the audio thread.  No handler takes a lock   *)
(* or publishes its coefficients in one step, so a setter called while the *)
(* stream runs executes statement by statement, and process_sample (taken  *)
(* as one step here) can run between any two of them.                      *)
(***************************************************************************)
\* the statements the call `kind` with arguments args executes on engine e
Program(e, kind, args) ==
    IF e = "mna"
    THEN (IF kind = "prepare" THEN MNA_prepare_prog(mna, args[1])
          ELSE MNA_set_knobs_prog(mna, args[1], args[2]))
    ELSE (IF kind = "prepare" THEN DKMethod_prepare_prog(dk, args[1])
          ELSE DKMethod_setKnobs_prog(dk, args[1], args[2]))

\* the control thread enters prepare or the setter of engine e
ControlBegin(e, kind, args) ==
    /\ ncall < MaxCalls
    /\ ctl.eng = "none"
    /\ hist.prepared
    /\ Program(e, kind, args) # <<>>
    /\ ncall' = ncall + 1
    /\ ctl' = [eng |-> e, prog |-> Program(e, kind, args)]
    /\ mna' = IF e = "mna" THEN [mna EXCEPT !.upd = 0] ELSE mna
    /\ dk' = IF e = "dk" THEN [dk EXCEPT !.upd = 0] ELSE dk
    /\ race' = [used |-> {},
                allowed |->
                    IF e = "mna"
                    THEN LET m == MNA_run(mna, Program(e, kind, args))
                         IN  {CoefficientsRead(e), <<m.G, m.H, m.A_inv>>}
                    ELSE LET d == DKMethod_run(dk, Program(e, kind, args))
                         IN  {CoefficientsRead(e), <<d.R, d.Z>>}]
    /\ call' = [op |-> kind, args |-> args, pos |-> args]
    /\ hist' = [hist EXCEPT !.valid = @ /\ \A i \in DOMAIN args : Positive(args[i]),
                            !.steady = @ /\ nsamp = 0]
    /\ UNCHANGED <<dkTW, lp, rc, coeff12, out, nsamp>>

\* the control thread executes its next statement; the call returns after the last
ControlStep ==
    /\ ctl.eng # "none"
    /\ mna' = IF ctl.eng = "mna" THEN MNA_stmt(mna, Head(ctl.prog)) ELSE mna
    /\ dk' = IF ctl.eng = "dk" THEN DKMethod_stmt(dk, Head(ctl.prog)) ELSE dk
    /\ ctl' = IF Tail(ctl.prog) = <<>> THEN [eng |-> "none", prog |-> <<>>]
              ELSE [ctl EXCEPT !.prog = Tail(ctl.prog)]
    /\ UNCHANGED <<dkTW, lp, rc, coeff12, out, call, race, nsamp, ncall, hist>>

Next ==
    \/ \E sr \in Rates : Prepare(sr)
    \/ \E r \in Knobs, c \in Knobs : SetParameters(r, c)
    \/ \E n \in Samples : ProcessSample(n)

Spec == Init /\ [][Next]_vars

NextRace ==
    \/ Next
    \/ \E e \in {"mna", "dk"}, sr \in Rates : ControlBegin(e, "prepare", <<sr>>)
    \/ \E e \in {"mna", "dk"}, u \in Knobs, v \in Knobs :
           ControlBegin(e, "setKnobs", <<u, v>>)
    \/ ControlStep

SpecRace == Init /\ [][NextRace]_vars

(***************************************************************************)
(* Properties                                                              *)
(***************************************************************************)
\* an engine's members, without the instrumentation counter
Members(e) ==
    IF "calls" \in DOMAIN e THEN [e EXCEPT !.upd = 0, !.calls = <<>>]
    ELSE [e EXCEPT !.upd = 0]

\* the recurrence state of each engine
MNA_state(m) == <<m.x, m.b, m.b_delay>>

DK_state(d) == <<d.X>>

LP_state(w) ==
    <<w.cap.delayed_a, w.res.a, w.res.b, w.cap.a, w.cap.b,
      w.adaptor.a, w.adaptor.b, w.Vin.a, w.Vin.b>>

RC_state(w) ==
    <<w.C1.z, w.R1.a, w.R1.b, w.C1.a, w.C1.b, w.S1.a, w.S1.b, w.Vin.a, w.Vin.b>>

AllZero(t) == \A i \in DOMAIN t : t[i] = Q(0)

\* 1e-4
Tolerance == <<1, 10000>>

\* u and v agree within the relative tolerance
Close(u, v) ==
    /\ IsFinite(u)
    /\ IsFinite(v)
    /\ LET big == IF FLt(FAbs(u), FAbs(v)) THEN FAbs(v) ELSE FAbs(u)
       IN  ~FLt(FMul(Tolerance, big), FAbs(FSub(u, v)))

\* the three engines hold the same positive R, C and sample rate
SameCircuit ==
    /\ Positive(dk.R) /\ Positive(dk.C) /\ Positive(dk.fs)
    /\ mna.Res = dk.R /\ mna.Cap = dk.C /\ mna.samp_rate = dk.fs
    /\ rc.R1.R = dk.R /\ rc.C1.C = dk.C /\ rc.C1.fs = dk.fs

\* C1: engines configured alike before the stream starts and fed the same
\* samples return, once the transient is over (here: at the last sample of the
\* run), outputs that agree within 1e-4 relative.
C1_EnginesAgree ==
    (nsamp = MaxSamples /\ hist.steady /\ hist.rcSetup /\ SameCircuit)
        => /\ Close(out.mna, out.dk)
           /\ Close(out.dk, out.rc)
           /\ Close(out.mna, out.rc)

\* C2: from the zero state, with positive R, C and sample rate, every
\* process_sample(0) returns 0 and leaves the recurrence state of every engine
\* all-zero.
C2_ZeroInZeroOut ==
    (nsamp > 0 /\ hist.valid /\ hist.zeroIn)
        => /\ out.mna = Q(0) /\ out.dk = Q(0) /\ out.lp = Q(0) /\ out.rc = Q(0)
           /\ \A i \in 1..3 : AllZero(MNA_state(mna)[i])
           /\ AllZero(DK_state(dk))
           /\ AllZero(LP_state(lp))
           /\ AllZero(RC_state(rc))

\* C3: a process_sample that runs while prepare or a setter is under way on
\* the same engine reads either the coefficients the engine held when the call
\* began or the ones it holds when the call has returned.
C3_CoefficientsAtomic == race.used \subseteq race.allowed

\* every entry of a matrix is finite
FiniteMat(M) == \A i \in 1..3, j \in 1..3 : IsFinite(M[i][j])

\* C4: after prepare or a setter the stored R, C and sample rate of every
\* engine are strictly positive and the recomputed coefficients carry no
\* infinity or NaN (no division by zero, no singular matrix inverted).
C4_ParametersStayPositive ==
    (call.op \in {"prepare", "setParameters"})
        => /\ Positive(mna.Res) /\ Positive(mna.Cap) /\ Positive(mna.samp_rate)
           /\ Positive(dk.R) /\ Positive(dk.C) /\ Positive(dk.fs)
           /\ Positive(lp.res.R) /\ Positive(lp.cap.C) /\ Positive(lp.cap.fs)
           /\ FiniteMat(mna.G) /\ FiniteMat(mna.H) /\ FiniteMat(mna.A_inv)
           /\ IsFinite(mna.T) /\ IsFinite(dk.Z)
           /\ IsFinite(lp.cap.R0) /\ IsFinite(lp.adaptor.R0)

\* C5: a setter called with the R and C the engine already stores runs
\* update_coefficients / calc_impedences not once and changes no member.
C5_SameKnobsNoOp ==
    [][call'.op = "setParameters" =>
          /\ (call'.args = <<mna.Res, mna.Cap>> => mna' = Members(mna))
          /\ (call'.args = <<dk.R, dk.C>> => dk' = Members(dk))
          /\ (call'.args = <<lp.res.R, lp.cap.C>> => lp' = Members(lp))]_vars

\* a setter has just been called mid-stream with the stored values
C5_Witness ==
    /\ call.op = "setParameters"
    /\ call.args = <<mna.Res, mna.Cap>>
    /\ mna.upd = 0 /\ dk.upd = 0 /\ lp.upd = 0
    /\ nsamp > 0
    /\ dk.X # Q(0)

\* C6: prepare called with the stored sample rate changes no member of any
\* engine: parameters, coefficients and recurrence state stay as they were.
C6_PrepareSameRateNoOp ==
    [][call'.op = "prepare" =>
          /\ (call'.args = <<mna.samp_rate>> => Members(mna') = Members(mna))
          /\ (call'.args = <<dk.fs>> => Members(dk') = Members(dk))
          /\ (call'.args = <<lp.cap.fs>> => Members(lp') = Members(lp))]_vars

\* C7: a setter leaves the recurrence state of every engine as it was.
C7_SetterKeepsState ==
    [][call'.op = "setParameters" =>
          /\ MNA_state(mna') = MNA_state(mna)
          /\ DK_state(dk') = DK_state(dk)
          /\ LP_state(lp') = LP_state(lp)
          /\ RC_state(rc') = RC_state(rc)]_vars

\* a setter has just changed R or C of a stream with a non-zero state
C7_Witness ==
    /\ call.op = "setParameters"
    /\ dk.upd > 0 /\ mna.upd > 0 /\ lp.upd > 0
    /\ nsamp > 0
    /\ IsFinite(dk.X) /\ dk.X # Q(0)
    /\ mna.x # ZeroVec

\* C8: every setter takes (R, C) in that order: after the call the engine's
\* resistance is the first argument and its capacitance the second.
C8_SameArgumentOrder ==
    (call.op = "setParameters")
        => /\ mna.Res = call.pos.mna[1] /\ mna.Cap = call.pos.mna[2]
           /\ dk.R = call.pos.dk[1] /\ dk.C = call.pos.dk[2]
           /\ lp.res.R = call.pos.lp[1] /\ lp.cap.C = call.pos.lp[2]

\* C9: MNA::process_sample writes the input into the forcing entry of the
\* source-constraint row (row 3 of G) and returns the capacitor node voltage
\* (the second unknown).
C9_ForcingAndReadoutRows ==
    (call.op = "process_sample")
        => /\ mna.b[3] = call.args[1]
           /\ out.mna = mna.x[2]

\* C10: both at rest with the default R, C and sample rate, the WDF engine
\* and the DK engine return the same value for the first sample of a unit
\* impulse.
C10_ImpulseFirstSample ==
    (/\ nsamp = 1 /\ call.op = "process_sample" /\ call.args = <<Q(1)>>
     /\ hist.steady /\ hist.rcSetup
     /\ dk.R = DefaultRes /\ dk.C = DefaultCap /\ dk.fs = DefaultRate
     /\ rc.R1.R = DefaultRes /\ rc.C1.C = DefaultCap /\ rc.C1.fs = DefaultRate)
        => out.rc = out.dk

\* the stream began at rest with positive R, C and sample rate, and no
\* prepare or setter has run since its first sample
AtRestValid(h) == h.valid /\ h.steady /\ h.rcSetup

\* C11: along the response to a unit impulse (1 at sample 0, 0 afterwards)
\* of the DK and WDF engines, started at rest with positive R, C and sample
\* rate, every output is no larger in magnitude than the one before it and
\* the sign never flips.
C11_ImpulseDecays ==
    [][(/\ call'.op = "process_sample" /\ nsamp >= 1
        /\ hist'.impulse /\ AtRestValid(hist'))
          => /\ ~FLt(FAbs(out.dk), FAbs(out'.dk))
             /\ ~FLt(FMul(out.dk, out'.dk), Q(0))
             /\ ~FLt(FAbs(out.rc), FAbs(out'.rc))
             /\ ~FLt(FMul(out.rc, out'.rc), Q(0))]_vars

\* C12: along the response to the constant input 1 of an engine started at
\* rest with positive R, C and sample rate, the output approaches 1: its
\* distance to 1 never grows from one sample to the next (so an output of 1
\* is followed by an output of 1).
C12_StepApproachesOne ==
    [][(/\ call'.op = "process_sample" /\ nsamp >= 1
        /\ hist'.step /\ AtRestValid(hist'))
          => /\ ~FLt(FAbs(FSub(out.dk, Q(1))), FAbs(FSub(out'.dk, Q(1))))
             /\ ~FLt(FAbs(FSub(out.mna, Q(1))), FAbs(FSub(out'.mna, Q(1))))
             /\ ~FLt(FAbs(FSub(out.rc, Q(1))), FAbs(FSub(out'.rc, Q(1))))]_vars

\* C13: after prepare or set_knobs with positive values the cached MNA
\* coefficients fit the stored parameters: T = 1/samp_rate, G and C built from
\* Res and Cap, H = 2*C/T with that T, A = G + H and A_inv the inverse of A.
C13_MNACoefficientsConsistent ==
    (call.op \in {"prepare", "setParameters"} /\ hist.valid)
        => /\ mna.T = FDiv(Q(1), mna.samp_rate)
           /\ mna.G = MNA_G(mna.Res)
           /\ mna.C = MNA_C(mna.Cap)
           /\ mna.H = MatDivScalar(MatScale(Q(2), MNA_C(mna.Cap)), mna.T)
           /\ mna.A = MatAdd(mna.G, mna.H)
           /\ mna.A_inv = Inverse3(mna.A)

\* 1/(2 * fs * C) for the fs and C the object d stores
PortCoefficient(d) == FDiv(Q(1), FMul(FMul(Q(2), d.fs), d.C))

\* C14: after prepare or setKnobs with positive values the member Z that
\* DKMethod::process_sample reads is 1/(2*fs*C) for the stored fs and C, in
\* the DKMethod of either project.
C14_DKCoefficientZ ==
    (call.op \in {"prepare", "setParameters"} /\ hist.valid)
        => /\ dk.Z = PortCoefficient(dk)
           /\ dkTW.Z = PortCoefficient(dkTW)

\* C15: MNA::process_sample(vIn) sets x to A_inv * ((H - G)*x + b + b_delay),
\* b being the forcing vector with vIn written into it by this call, and
\* leaves b_delay equal to that b.
C15_MNAStateUpdate ==
    [][(call'.op = "process_sample" /\ hist.valid)
          => /\ mna'.x = MatVec(mna.A_inv,
                                VecAdd(VecAdd(MatVec(MatSub(mna.H, mna.G), mna.x),
                                              mna'.b),
                                       mna.b_delay))
             /\ mna'.b_delay = mna'.b]_vars

\* C16: in two consecutive process_sample calls of a WDF tree the wave the
\* capacitor reflects in the second call is the incident wave it received in
\* the first (a one-sample delay).
C16_CapacitorOneSampleDelay ==
    [][(/\ call.op = "process_sample" /\ call'.op = "process_sample"
        /\ hist.valid /\ hist.rcSetup)
          => /\ rc'.C1.b = rc.C1.a
             /\ lp'.cap.b = lp.cap.a]_vars

\* the incident waves a series adaptor owes its children: x the wave it
\* received, b1 and b2 the children's reflected waves, R1 and R2 their port
\* resistances
Scattered(x, b1, b2, R1, R2) ==
    LET alpha == FDiv(R1, FAdd(R1, R2))
        wsum  == FSub(FSub(x, b1), b2)
    IN  <<FAdd(b1, FMul(alpha, wsum)), FAdd(b2, FMul(FSub(Q(1), alpha), wsum))>>

\* C17: after process_sample the resistor and the capacitor of a WDF tree
\* hold the incident waves a1 = b1 + alpha*(x - b1 - b2) and
\* a2 = b2 + (1 - alpha)*(x - b1 - b2), alpha = R0_child1/(R0_child1 + R0_child2),
\* x being the wave the adaptor's incident() received.
C17_AlphaScattering ==
    (call.op = "process_sample" /\ hist.valid /\ hist.rcSetup)
        => /\ <<rc.R1.a, rc.C1.a>>
                 = Scattered(rc.S1.a, rc.R1.b, rc.C1.b, rc.R1.R0, rc.C1.R0)
           /\ rc.S1.port1Reflect = FDiv(rc.R1.R0, FAdd(rc.R1.R0, rc.C1.R0))
           /\ <<lp.res.a, lp.cap.a>>
                 = Scattered(lp.Vin.b, lp.res.b, lp.cap.b, lp.res.R0, lp.cap.R0)

\* C18: after prepare / setup or a parameter setter with positive values the
\* impedances of a WDF tree fit its stored parameters: Resistor R0 = R,
\* Capacitor R0 = 1/(2*fs*C), adaptor R0 the sum of the two, and the cached
\* weight alpha = Resistor R0 / adaptor R0.
C18_ImpedancesConsistent ==
    (call.op \in {"prepare", "setParameters"} /\ hist.valid)
        => /\ lp.res.R0 = lp.res.R
           /\ lp.cap.R0 = PortCoefficient(lp.cap)
           /\ lp.adaptor.R0 = FAdd(lp.res.R0, lp.cap.R0)
           /\ rc.R1.R0 = rc.R1.R
           /\ rc.C1.R0 = PortCoefficient(rc.C1)
           /\ rc.S1.R0 = FAdd(rc.R1.R0, rc.C1.R0)
           /\ rc.S1.port1Reflect = FDiv(rc.R1.R0, rc.S1.R0)

\* the positions of a call trace where calc_impedences of one of `nodes` is entered
CalcAt(calls, nodes) ==
    {i \in DOMAIN calls :
        calls[i][2] \in nodes /\ calls[i][3] \in {"calc_impedences", "calc_impedence"}}

Leaves == {"res", "cap", "R1", "C1"}

Adaptors == {"adaptor", "S1"}

Roots == {"Vin"}

\* the impedance calls of a trace go bottom-up: an adaptor calc follows every
\* leaf calc, and the root calc comes after every leaf and adaptor calc
BottomUp(calls) ==
    /\ \A i \in CalcAt(calls, Leaves) : \E j \in CalcAt(calls, Adaptors) : i < j
    /\ \A i \in CalcAt(calls, Leaves \cup Adaptors) :
           \A j \in CalcAt(calls, Roots) : i < j

\* C19: every impedance recomputation of a WDF tree (prepare, setup, setKnobs)
\* visits the nodes bottom-up: leaves, then the adaptor, then the root.
C19_CalcBottomUp ==
    (call.op \in {"prepare", "setParameters"})
        => BottomUp(lp.calls) /\ BottomUp(rc.calls)

\* the positions of a call trace where `method` is entered
MethodAt(calls, method) == {i \in DOMAIN calls : calls[i][3] = method}

Drivers == {"RCLowPass", "RCLowpass"}

\* one process_sample, by its call trace: the driver calls reflected() of the
\* adaptor and never of the root, the adaptor calls reflected() of both
\* children, the root's incident() pushes its wave down to the adaptor, and
\* every reflected() is entered before any incident()
RootDrivenSweep(calls) ==
    /\ \A i \in DOMAIN calls :
           ~(calls[i][1] \in Drivers /\ calls[i][2] \in Roots
             /\ calls[i][3] = "reflected")
    /\ \E i \in DOMAIN calls :
           calls[i][1] \in Drivers /\ calls[i][2] \in Adaptors
           /\ calls[i][3] = "reflected"
    /\ {calls[i][2] : i \in {j \in MethodAt(calls, "reflected") :
                                  calls[j][1] \in Adaptors}}
           \in {{"res", "cap"}, {"R1", "C1"}}
    /\ \E i \in MethodAt(calls, "incident") :
           calls[i][1] \in Roots /\ calls[i][2] \in Adaptors
    /\ \A i \in MethodAt(calls, "reflected") :
           \A j \in MethodAt(calls, "incident") : i < j

\* C20: in every process_sample of a WDF tree the driver calls the adaptor's
\* reflected() and not the root's, b_adaptor = -(b_child1 + b_child2) reaches
\* the root's incident(), the root computes b_root = 2*Vin - a_root and pushes
\* it to the adaptor, and the reflect pass is over before any incident() call.
C20_RootNeverReflectedByDriver ==
    (call.op = "process_sample")
        => /\ RootDrivenSweep(rc.calls)
           /\ rc.S1.b = FNeg(FAdd(rc.R1.b, rc.C1.b))
           /\ rc.Vin.a = rc.S1.b
           /\ rc.Vin.b = FSub(FMul(Q(2), rc.Vin.vs), rc.Vin.a)
           /\ rc.S1.a = rc.Vin.b
           /\ RootDrivenSweep(lp.calls)
           /\ lp.adaptor.b = FNeg(FAdd(lp.res.b, lp.cap.b))
           /\ lp.Vin.a = lp.adaptor.b
           /\ lp.Vin.b = FSub(FMul(Q(2), lp.Vin.Vin), lp.Vin.a)

\* C21: a DKMethod prepare or setKnobs call that leaves C and fs as they were
\* (a change of R alone included) does not run update_coefficients: Z is
\* recomputed only by calls that change C or the sample rate.
C21_ROnlyNoRecompute ==
    [][(/\ call'.op \in {"prepare", "setParameters"}
        /\ dk'.C = dk.C /\ dk'.fs = dk.fs)
          => dk'.upd = 0]_vars

\* the positions of a call trace where the delayed wave `member` is accessed
AccessAt(calls, member, access) ==
    {i \in DOMAIN calls : calls[i][2] = member /\ calls[i][3] = access}

\* the delayed wave is written exactly once, and read before it is written
WrittenOnceAfterRead(calls, member) ==
    /\ Cardinality(AccessAt(calls, member, "write")) = 1
    /\ AccessAt(calls, member, "read") # {}
    /\ \A i \in AccessAt(calls, member, "read") :
           \A j \in AccessAt(calls, member, "write") : i < j

\* C22: every process_sample of a WDF tree writes the capacitor's delayed
\* wave exactly once, after having read it into the reflected wave b: b is the
\* old state and the new state is the incident wave a the capacitor held when
\* the call began.
C22_DelayedWaveWrittenOnce ==
    [][call'.op = "process_sample"
          => /\ WrittenOnceAfterRead(rc'.calls, "z")
             /\ rc'.C1.b = rc.C1.z
             /\ rc'.C1.z = rc.C1.a
             /\ WrittenOnceAfterRead(lp'.calls, "delayed_a")
             /\ lp'.cap.b = lp.cap.delayed_a
             /\ lp'.cap.delayed_a = lp.cap.a]_vars

\* a process_sample has just moved a non-zero incident wave into the delayed
\* state and reflected a different, older one
C22_Witness ==
    /\ call.op = "process_sample"
    /\ nsamp >= 2
    /\ IsFinite(rc.C1.z) /\ rc.C1.z # Q(0)
    /\ IsFinite(rc.C1.b) /\ rc.C1.b # rc.C1.z
    /\ AccessAt(rc.calls, "z", "write") # {}

\* the i-th unit vector
UnitVec(i) == Vec3(LAMBDA j : IF j = i THEN Q(1) ELSE Q(0))

\* C23: as long as every R, C and sample rate handed to the MNA object was
\* positive, the system matrix A = G + H it holds has a finite non-zero
\* determinant and the cached A_inv is its inverse (finite, A * A_inv = I).
C23_SystemMatrixInvertible ==
    hist.valid
        => /\ IsFinite(Det3(mna.A)) /\ ~IsZero(Det3(mna.A))
           /\ Det3(mna.A) = FNeg(mna.A[2][2])    \* -(1/R + 2*C/T)
           /\ Positive(mna.A[2][2])
           /\ FiniteMat(mna.A_inv)
           /\ \A i \in 1..3 : MatVec(mna.A, MatVec(mna.A_inv, UnitVec(i))) = UnitVec(i)

\* update_coefficients has just rebuilt A from positive values other than
\* the defaults
C23_Witness ==
    /\ call.op \in {"prepare", "setParameters"}
    /\ hist.valid
    /\ mna.upd > 0
    /\ mna.A # MNA_new.A
    /\ mna.A = MatAdd(mna.G, mna.H)

====
